---- MODULE Spec2Model ----
(***************************************************************************)
(* Multivariate feature selection of fslite (fslite/fs/multivariate.py):   *)
(* the FSMultivariate dispatcher, the correlation selector with its strict *)
(* and approximate redundancy resolution, and the variance selector.       *)
(*                                                                         *)
(* Numbers.  A correlation is an integer c standing for c / Resolution, so *)
(* the diagonal of a correlation matrix is Resolution (1.0).  A threshold  *)
(* is a rational [num, den].  np.mean over a row is kept as the row sum:   *)
(* every row of one matrix is divided by the same n > 0, so comparing sums *)
(* compares means.  A variance is kept as m^3 times its value, m being the *)
(* number of samples.                                                      *)
(***************************************************************************)
EXTENDS Integers, Sequences, FiniteSets, TLC

VARIABLES pc, fs_method, kwargs, fsdf, err, trace,
          corr_matrix, correlated_pairs, col_means, index_to_remove,
          features_variances, selected_features, previous

vars == <<pc, fs_method, kwargs, fsdf, err, trace,
          corr_matrix, correlated_pairs, col_means, index_to_remove,
          features_variances, selected_features, previous>>

----------------------------------------------------------------------------
(* Bounds of the model *)

MaxFeatures == 3
Resolution == 2
MaxVarFeatures == 2
NSamples == 2
MaxValue == 1
MonoFeatures == 6

----------------------------------------------------------------------------
(* Helpers *)

Unset == "unset"
NoError == "none"

Abs(x) == IF x < 0 THEN -x ELSE x

Indexes(n) == 0 .. (n - 1)

\* list(range(n))
Range(n) == [k \in 1 .. n |-> k - 1]

RECURSIVE SumOver(_, _)
SumOver(S, f) ==
    IF S = {} THEN 0
    ELSE LET x == CHOOSE y \in S : TRUE IN f[x] + SumOver(S \ {x}, f)

RECURSIVE SortedSeq(_)
\* the elements of a finite set of integers, ascending
SortedSeq(S) ==
    IF S = {} THEN <<>>
    ELSE LET lo == CHOOSE x \in S : \A y \in S : x <= y
         IN <<lo>> \o SortedSeq(S \ {lo})

\* t1 <= t2 for two rational thresholds with positive denominators
ThresholdLeq(t1, t2) == t1.num * t2.den <= t2.num * t1.den

----------------------------------------------------------------------------
(* Values shared by the selectors *)

Methods == {"m_corr", "variance", "univariate"}
SelectionModes == {"strict", "approximate", "k_best", "percentile"}
CorrMethods == {"pearson", "spearman", "kendall"}

\* selection_threshold: float = 0.75
DefaultCorrThreshold == [num |-> 3, den |-> 4]
\* selection_mode: str = 'strict'
DefaultCorrMode == "strict"
\* corr_method: str = "pearson"
DefaultCorrMethod == "pearson"

\* a selection_threshold keyword that is not given (no rational has den = 0)
UnsetThreshold == [num |-> 0, den |-> 0]

\* the value a keyword argument takes in the callee: its default when omitted
Arg(kw, key, default) == IF kw[key] = Unset THEN default ELSE kw[key]

ThresholdArg(kw, default) ==
    IF kw["selection_threshold"] = UnsetThreshold THEN default
    ELSE kw["selection_threshold"]

\* what a call leaves behind: the error raised (or none), the library and
\* collaborator calls made, in order, and the locals computed so far
Outcome(e, tr, cm, cp, means, drop, vars_, sel) ==
    [err |-> e, trace |-> tr, corr_matrix |-> cm, correlated_pairs |-> cp,
     col_means |-> means, index_to_remove |-> drop,
     features_variances |-> vars_, selected_features |-> sel]

----------------------------------------------------------------------------
(* numpy / scipy as the correlation selector uses them.  An array is a     *)
(* function from index tuples to numbers: a 2-D array has pairs as its     *)
(* domain, a 0-d array (a scalar) has the empty tuple as its only index.   *)

Scalar(x) == [p \in {<<>>} |-> x]
IsScalar(a) == DOMAIN a = {<<>>}

\* np.corrcoef(f_matrix, rowvar=False): the n x n matrix of coefficients;
\* with a single column the covariance is squeezed to a scalar and c / c
\* = 1.0 is returned; with no column the 0 x 0 matrix.
NpCorrcoef(data) ==
    IF data.n = 1 THEN [raised |-> NoError, value |-> Scalar(data.one)]
    ELSE [raised |-> NoError, value |-> data.corr]

\* spearmanr(f_matrix)[0]: the rank correlation matrix; a scalar when there
\* are exactly two columns; with fewer than two columns the constant-input
\* test reads a[:, 1] (or a[:, 0]) and raises IndexError.
Spearmanr(data) ==
    IF data.n < 2 THEN [raised |-> "IndexError", value |-> Scalar(0)]
    ELSE IF data.n = 2
         THEN [raised |-> NoError, value |-> Scalar(data.corr[<<0, 1>>])]
         ELSE [raised |-> NoError, value |-> data.corr]

\* a slip: the sign is kept
NpAbsOmitted(a) == a

\* np.abs(corr_matrix), elementwise
NpAbs(a) == [p \in DOMAIN a |-> Abs(a[p])]

\* np.triu(corr_matrix, k=1): zero on and below the diagonal.  It builds its
\* mask with tri(*m.shape[-2:]), which for a 0-d array is tri() without its
\* required argument: TypeError.
NpTriu(a) ==
    IF IsScalar(a) THEN [raised |-> "TypeError", value |-> a]
    ELSE [raised |-> NoError,
          value |-> [p \in DOMAIN a |-> IF p[1] < p[2] THEN a[p] ELSE 0]]

\* a slip: < for >
Below(c, one, threshold) == c * threshold.den < threshold.num * one

\* c / one > threshold, one being the integer that stands for 1.0
Above(c, one, threshold) == c * threshold.den > threshold.num * one

RECURSIVE WhereAbove(_, _, _, _, _)
\* the cells k, k + 1, ..., n * n - 1 of the n x n array upper, counted by
\* row and then by column, that are above the threshold
WhereAbove(upper, n, one, threshold, k) ==
    IF k >= n * n THEN <<>>
    ELSE LET p == <<k \div n, k % n>>
         IN (IF Above(upper[p], one, threshold) THEN <<p>> ELSE <<>>)
            \o WhereAbove(upper, n, one, threshold, k + 1)

\* np.column_stack(np.where(upper > selection_threshold)), upper being
\* np.triu(corr_matrix, k=1): the index pairs by row, then by column
CorrelatedPairs(upper, n, one, threshold) == WhereAbove(upper, n, one, threshold, 0)

\* np.mean(corr_matrix, axis=1), as row sums (see the module comment)
ColMeans(a, n) ==
    [i \in Indexes(n) |-> SumOver(Indexes(n), [j \in Indexes(n) |-> a[<<i, j>>]])]

\* a slip: >= for >, so that a tie of means removes i
StrictChoiceTieFirst(means, p) == IF means[p[1]] >= means[p[2]] THEN p[1] ELSE p[2]

\* the endpoint of one correlated pair that strict mode removes
StrictChoice(means, p) == IF means[p[1]] > means[p[2]] THEN p[1] ELSE p[2]

RECURSIVE StrictLoop(_, _, _)
\* for i, j in correlated_pairs: add i or j to index_to_remove
StrictLoop(pairs, means, removed) ==
    IF pairs = <<>> THEN removed
    ELSE StrictLoop(Tail(pairs), means, removed \cup {StrictChoice(means, Head(pairs))})

\* a slip: "in" for "not in"
KeepRemoved(features_indexes, removed) ==
    SelectSeq(features_indexes, LAMBDA i : i \in removed)

\* [i for i in features_indexes if i not in index_to_remove]
KeepNotRemoved(features_indexes, removed) ==
    SelectSeq(features_indexes, LAMBDA i : i \notin removed)

----------------------------------------------------------------------------
(* fslite.fs.utils.find_maximal_independent_set: greedy, minimum remaining *)
(* degree first, the lowest index winning ties.                            *)

Nodes(pairs) == {pairs[k][1] : k \in 1 .. Len(pairs)} \cup {pairs[k][2] : k \in 1 .. Len(pairs)}

\* the neighbours of every node in the graph whose edges are the pairs
Adjacency(pairs) ==
    [v \in Nodes(pairs) |->
        {pairs[k][2] : k \in {h \in 1 .. Len(pairs) : pairs[h][1] = v}}
        \cup {pairs[k][1] : k \in {h \in 1 .. Len(pairs) : pairs[h][2] = v}}]

\* the node the greedy strategy picks next: of minimum remaining degree,
\* the lowest index among those
PickNode(adj, remaining) ==
    CHOOSE v \in remaining : \A w \in remaining :
        \/ Cardinality(adj[v] \cap remaining) < Cardinality(adj[w] \cap remaining)
        \/ /\ Cardinality(adj[v] \cap remaining) = Cardinality(adj[w] \cap remaining)
           /\ v <= w

RECURSIVE GreedyIndependentSet(_, _, _)
GreedyIndependentSet(adj, remaining, chosen) ==
    IF remaining = {} THEN chosen
    ELSE LET v == PickNode(adj, remaining)
         IN GreedyIndependentSet(adj, remaining \ ({v} \cup adj[v]), chosen \cup {v})

FindMaximalIndependentSet(pairs, keep) ==
    LET independent == GreedyIndependentSet(Adjacency(pairs), Nodes(pairs), {})
    IN IF keep THEN independent ELSE Nodes(pairs) \ independent

----------------------------------------------------------------------------
(* multivariate_correlation_selector *)

NoArray == <<>>

\* a slip: asks the finder for the features to keep
ApproximateRemovalKeep(pairs) == FindMaximalIndependentSet(pairs, TRUE)

\* index_to_remove = find_maximal_independent_set(correlated_pairs, keep=False)
ApproximateRemoval(pairs) == FindMaximalIndependentSet(pairs, FALSE)

CorrFailure(e, tr, cm, cp) == Outcome(e, tr, cm, cp, NoArray, {}, NoArray, <<>>)

\* index_to_remove, once corr_matrix and correlated_pairs are there
ResolveRedundancy(data, selection_mode, tr, cm, cp) ==
    LET features_indexes == Range(data.n)
    IN IF selection_mode = "strict"
       THEN LET means == ColMeans(cm, data.n)
                removed == StrictLoop(cp, means, {})
            IN Outcome(NoError, tr \o <<"np.mean">>, cm, cp, means, removed,
                       NoArray, KeepNotRemoved(features_indexes, removed))
       ELSE IF selection_mode = "approximate"
       THEN LET removed == ApproximateRemoval(cp)
            IN Outcome(NoError, tr \o <<"find_maximal_independent_set">>, cm, cp,
                       NoArray, removed, NoArray,
                       KeepNotRemoved(features_indexes, removed))
       ELSE CorrFailure("ValueError", tr, cm, cp)

MultivariateCorrelationSelector(data, kw) ==
    LET selection_mode == Arg(kw, "selection_mode", DefaultCorrMode)
        selection_threshold == ThresholdArg(kw, DefaultCorrThreshold)
        corr_method == Arg(kw, "corr_method", DefaultCorrMethod)
        t0 == <<"get_feature_matrix">>
    IN IF corr_method \notin {"pearson", "spearman"}
       THEN CorrFailure("ValueError", t0, NoArray, <<>>)
       ELSE
       LET lib == IF corr_method = "pearson" THEN NpCorrcoef(data) ELSE Spearmanr(data)
           t1 == t0 \o <<IF corr_method = "pearson" THEN "np.corrcoef" ELSE "spearmanr">>
       IN IF lib.raised /= NoError
          THEN CorrFailure(lib.raised, t1, NoArray, <<>>)
          ELSE
          LET cm == NpAbs(lib.value)
              upper == NpTriu(cm)
              t2 == t1 \o <<"np.abs", "np.triu">>
          IN IF upper.raised /= NoError
             THEN CorrFailure(upper.raised, t2, cm, <<>>)
             ELSE ResolveRedundancy(data, selection_mode, t2 \o <<"np.where">>, cm,
                                    CorrelatedPairs(upper.value, data.n, data.one,
                                                    selection_threshold))

----------------------------------------------------------------------------
(* multivariate_variance_selector *)

\* selection_mode: str = "k_best"
DefaultVarMode == "k_best"
\* selection_threshold: float = 0.0
DefaultVarThreshold == [num |-> 0, den |-> 1]

Samples(data) == IF data.n = 0 THEN 0 ELSE Len(data.columns[1])

\* np.var(f_matrix, axis=0): the mean of the squared deviations from the
\* column mean, here times m^3:  sum over rows of (m * x - sum(x))^2
NpVar(data) ==
    LET m == Samples(data)
    IN [i \in Indexes(data.n) |->
          LET col == data.columns[i + 1]
              total == SumOver(1 .. m, col)
          IN SumOver(1 .. m, [r \in 1 .. m |-> (m * col[r] - total) * (m * col[r] - total)])]

\* fslite.fs.utils.percentile_rank: for each value the share of the values
\* that are <= it, on a 0-100 scale; kept as the count of such values
PercentileRank(variances) ==
    [i \in DOMAIN variances |->
        Cardinality({j \in DOMAIN variances : variances[j] <= variances[i]})]

\* a slip: >= for >
VarianceAtLeast(v, m, threshold) == v * threshold.den >= threshold.num * m * m * m

\* variance > selection_threshold
VarianceAbove(v, m, threshold) == v * threshold.den > threshold.num * m * m * m

\* 100 * count / n > selection_threshold
RankAbove(count, n, threshold) == 100 * count * threshold.den > threshold.num * n

\* np.where(mask)[0]: the indices where the mask holds, ascending
NpWhere(mask) == SortedSeq({i \in DOMAIN mask : mask[i]})

VarFailure(e, tr, variances) ==
    Outcome(e, tr, NoArray, <<>>, NoArray, {}, variances, <<>>)

MultivariateVarianceSelector(data, kw) ==
    IF kw["corr_method"] /= Unset
    THEN \* the function takes no corr_method keyword
         VarFailure("TypeError", <<>>, NoArray)
    ELSE
    LET selection_mode == Arg(kw, "selection_mode", DefaultVarMode)
        selection_threshold == ThresholdArg(kw, DefaultVarThreshold)
        variances == NpVar(data)
        tr == <<"get_feature_matrix", "np.var", "np.mean">>
    IN IF selection_mode = "k_best"
       THEN Outcome(NoError, tr \o <<"np.where">>, NoArray, <<>>, NoArray, {}, variances,
                NpWhere([i \in Indexes(data.n) |->
                    VarianceAbove(variances[i], Samples(data), selection_threshold)]))
       ELSE IF selection_mode = "percentile"
       THEN LET ranks == PercentileRank(variances)
            IN Outcome(NoError, tr \o <<"percentile_rank", "np.where">>, NoArray, <<>>,
                   NoArray, {}, variances,
                   NpWhere([i \in Indexes(data.n) |->
                       RankAbove(ranks[i], data.n, selection_threshold)]))
       ELSE VarFailure("ValueError", tr, variances)

----------------------------------------------------------------------------
(* class FSMultivariate *)

\* fslite.fs.constants.is_valid_multivariate_method
IsValidMultivariateMethod(method) == method \in {"m_corr", "variance"}

NoOutcome(e) == Outcome(e, <<>>, NoArray, <<>>, NoArray, {}, NoArray, <<>>)

\* FSMultivariate.multivariate_filter
MultivariateFilter(data, multivariate_method, kw) ==
    LET out == IF multivariate_method = "m_corr"
               THEN MultivariateCorrelationSelector(data, kw)
               ELSE IF multivariate_method = "variance"
               THEN MultivariateVarianceSelector(data, kw)
               ELSE NoOutcome("ValueError")
    IN IF out.err /= NoError THEN out
       ELSE [out EXCEPT !.trace = @ \o <<"select_features_by_index">>]

\* the state a finished or failed call leaves
Finish(out) ==
    /\ pc' = IF out.err = NoError THEN "done" ELSE "failed"
    /\ err' = out.err
    /\ trace' = out.trace
    /\ corr_matrix' = out.corr_matrix
    /\ correlated_pairs' = out.correlated_pairs
    /\ col_means' = out.col_means
    /\ index_to_remove' = out.index_to_remove
    /\ features_variances' = out.features_variances
    /\ selected_features' = out.selected_features

\* FSMultivariate.__init__: store the method and keyword arguments, validate
Construct ==
    /\ pc = "new"
    /\ IF IsValidMultivariateMethod(fs_method)
       THEN pc' = "ready" /\ err' = NoError
       ELSE pc' = "failed" /\ err' = "InvalidMethodError"
    /\ UNCHANGED <<fs_method, kwargs, fsdf, trace, corr_matrix, correlated_pairs,
                   col_means, index_to_remove, features_variances,
                   selected_features, previous>>

\* FSMultivariate.select_features
SelectFeatures ==
    /\ pc = "ready"
    /\ \E out \in {MultivariateFilter(fsdf, fs_method, kwargs)} : Finish(out)
    /\ UNCHANGED <<fs_method, kwargs, fsdf, previous>>

----------------------------------------------------------------------------
(* The data frames and keyword arguments the calls are made with *)

UpperPairs(n) == {p \in Indexes(n) \X Indexes(n) : p[1] < p[2]}

\* the symmetric matrix with unit diagonal whose upper triangle is u
Symmetric(n, one, u) ==
    [p \in Indexes(n) \X Indexes(n) |->
        IF p[1] = p[2] THEN one
        ELSE IF p[1] < p[2] THEN u[p] ELSE u[<<p[2], p[1]>>]]

RemoveAt(s, k) == [i \in 1 .. (Len(s) - 1) |-> IF i < k THEN s[i] ELSE s[i + 1]]

\* the determinant of rows r and columns c of m, for at most three of each
SmallDet(m, r, c) ==
    IF Len(r) = 0 THEN 1
    ELSE IF Len(r) = 1 THEN m[<<r[1], c[1]>>]
    ELSE IF Len(r) = 2
    THEN m[<<r[1], c[1]>>] * m[<<r[2], c[2]>>] - m[<<r[1], c[2]>>] * m[<<r[2], c[1]>>]
    ELSE m[<<r[1], c[1]>>] * (m[<<r[2], c[2]>>] * m[<<r[3], c[3]>>]
                               - m[<<r[2], c[3]>>] * m[<<r[3], c[2]>>])
       - m[<<r[1], c[2]>>] * (m[<<r[2], c[1]>>] * m[<<r[3], c[3]>>]
                               - m[<<r[2], c[3]>>] * m[<<r[3], c[1]>>])
       + m[<<r[1], c[3]>>] * (m[<<r[2], c[1]>>] * m[<<r[3], c[2]>>]
                               - m[<<r[2], c[2]>>] * m[<<r[3], c[1]>>])

RECURSIVE Det(_, _, _)
RECURSIVE Cofactors(_, _, _, _)
\* the determinant of the rows and columns of m listed, by cofactor
\* expansion along the first row
Det(m, rows, cols) ==
    IF Len(rows) <= 3 THEN SmallDet(m, rows, cols)
    ELSE Cofactors(m, rows, cols, Len(cols))

\* the terms 1 .. k of the expansion
Cofactors(m, rows, cols, k) ==
    IF k = 0 THEN 0
    ELSE Cofactors(m, rows, cols, k - 1)
         + (IF k % 2 = 1 THEN 1 ELSE -1) * m[<<rows[1], cols[k]>>]
             * Det(m, Tail(rows), RemoveAt(cols, k))

\* the ascending index sequences of three or more of the n features
PrincipalIndexes(n) ==
    {SortedSeq(S) : S \in {T \in SUBSET Indexes(n) : Cardinality(T) >= 3}}

\* positive semidefinite: every principal minor is >= 0 (those of order 1
\* and 2 are, the entries being at most the diagonal in magnitude).
\* Exactly the symmetric unit-diagonal matrices that are the correlation
\* matrix of some sample.
PositiveSemidefinite(m, principal) == \A s \in principal : Det(m, s, s) >= 0

CorrLevels == (-Resolution) .. Resolution

\* the frame of n features whose correlations above the diagonal are u
CorrFrame(n, u) ==
    [n |-> n, one |-> Resolution, corr |-> Symmetric(n, Resolution, u), columns |-> <<>>]

\* f is a frame of at most maxn features with correlations on the grid
IsCorrFrame(f, maxn) ==
    \E n \in 0 .. maxn : \E principal \in {PrincipalIndexes(n)} :
        \E u \in [UpperPairs(n) -> CorrLevels] :
            /\ f = CorrFrame(n, u)
            /\ PositiveSemidefinite(f.corr, principal)

\* the example of the documentation: columns [1,1,1], [1,2,3], [5,5,5]
ExampleColumns == <<<<1, 1, 1>>, <<1, 2, 3>>, <<5, 5, 5>>>>

VarFrames ==
    {[n |-> Len(c), one |-> Resolution, corr |-> NoArray, columns |-> c] :
        c \in {ExampleColumns} \cup
              UNION {[1 .. n -> [1 .. NSamples -> 0 .. MaxValue]] : n \in 0 .. MaxVarFeatures}}

NoKwargs == [selection_mode |-> Unset, selection_threshold |-> UnsetThreshold, corr_method |-> Unset]

\* thresholds on an absolute correlation: 0, 1/Resolution, ..., 1
CorrThresholds == {[num |-> k, den |-> Resolution] : k \in 0 .. Resolution}

\* every combination of the supported values, and the defaults with at most
\* one keyword replaced by a value the correlation selector does not support
CorrKwargs ==
    [selection_mode : {"strict", "approximate"},
     selection_threshold : CorrThresholds \cup {UnsetThreshold},
     corr_method : {"pearson", "spearman"}]
    \cup {NoKwargs}
    \cup {[NoKwargs EXCEPT !.selection_mode = m] : m \in SelectionModes}
    \cup {[NoKwargs EXCEPT !.corr_method = c] : c \in CorrMethods}

\* thresholds on a variance (0, 1/4, 1/2) and on a percentile rank (50)
VarThresholds == {[num |-> k, den |-> 4] : k \in 0 .. 2} \cup {[num |-> 50, den |-> 1]}

\* every combination of the supported values, and the defaults with at most
\* one keyword replaced by one the variance selector does not support
VarKwargs ==
    [selection_mode : {"k_best", "percentile"},
     selection_threshold : VarThresholds \cup {UnsetThreshold},
     corr_method : {Unset}]
    \cup {NoKwargs}
    \cup {[NoKwargs EXCEPT !.selection_mode = m] : m \in SelectionModes}
    \cup {[NoKwargs EXCEPT !.corr_method = c] : c \in CorrMethods}

\* nothing has been called yet
NoCallYet ==
    /\ err = NoError
    /\ trace = <<>>
    /\ corr_matrix = NoArray
    /\ correlated_pairs = <<>>
    /\ col_means = NoArray
    /\ index_to_remove = {}
    /\ features_variances = NoArray
    /\ selected_features = <<>>
    /\ previous = <<>>

\* An FSMultivariate about to be constructed for a data frame.  The frame
\* gives what the chosen selector reads: its columns' correlations for
\* m_corr (no column constant, so that every coefficient is defined), its
\* columns for variance.
Init ==
    /\ pc = "new"
    /\ NoCallYet
    /\ \/ fs_method = "m_corr" /\ IsCorrFrame(fsdf, MaxFeatures) /\ kwargs \in CorrKwargs
       \/ fs_method = "variance" /\ fsdf \in VarFrames /\ kwargs \in VarKwargs
       \/ /\ fs_method \in Methods \ {"m_corr", "variance"}
          /\ fsdf \in {f \in VarFrames : f.n <= 1}
          /\ kwargs = NoKwargs

Next == Construct \/ SelectFeatures

Spec == Init /\ [][Next]_vars

----------------------------------------------------------------------------
(* Selecting again from the same frame with a raised threshold *)

RECURSIVE SubsetsUpTo(_, _)
\* the subsets of S with at most k elements
SubsetsUpTo(S, k) ==
    IF k = 0 \/ S = {} THEN {{}}
    ELSE LET x == CHOOSE y \in S : TRUE
         IN SubsetsUpTo(S \ {x}, k) \cup {T \cup {x} : T \in SubsetsUpTo(S \ {x}, k - 1)}

\* Frames of weakly correlated features: feature 0 (an aggregate of the
\* others, say) has a correlation of 2 units with every other feature but
\* at most one, with which it has 1 unit; at most n \div 2 pairs of the
\* others have a correlation of 2 units, the rest 0.  The unit is 1 / (2 n),
\* which makes the matrix diagonally dominant, hence the correlation matrix
\* of some sample.
HubFrame(n, weak, side) ==
    [n |-> n, one |-> 2 * n,
     corr |-> Symmetric(n, 2 * n,
                [p \in UpperPairs(n) |->
                    IF p[1] = 0 THEN (IF p[2] = weak THEN 1 ELSE 2)
                    ELSE IF p \in side THEN 2 ELSE 0]),
     columns |-> <<>>]

IsHubFrame(f, maxn) ==
    \E n \in 2 .. maxn : \E weak \in 0 .. (n - 1) :
        \E side \in SubsetsUpTo({p \in UpperPairs(n) : p[1] > 0}, n \div 2) :
            f = HubFrame(n, weak, side)

\* thresholds of zero and of one unit of the frame
FrameThresholds(f) == {[num |-> k, den |-> f.one] : k \in 0 .. 1}

\* A constructed FSMultivariate('m_corr', ...) for a frame
InitMono ==
    /\ pc = "ready"
    /\ NoCallYet
    /\ fs_method = "m_corr"
    /\ IsHubFrame(fsdf, MonoFeatures)
    /\ kwargs \in [selection_mode : {"strict", "approximate"},
                   selection_threshold : FrameThresholds(fsdf),
                   corr_method : {"pearson"}]

\* FSMultivariate(fs_method, **kwargs) once more, with selection_threshold
\* raised to t or left as it is, and its select_features on the same frame;
\* previous keeps the threshold and Drop Set of the call before
Reselect(t) ==
    /\ pc = "done"
    /\ previous = <<>>
    /\ ThresholdLeq(kwargs["selection_threshold"], t)
    /\ previous' = <<[selection_threshold |-> kwargs["selection_threshold"],
                      index_to_remove |-> index_to_remove]>>
    /\ kwargs' = [kwargs EXCEPT !["selection_threshold"] = t]
    /\ \E out \in {MultivariateFilter(fsdf, fs_method, kwargs')} : Finish(out)
    /\ UNCHANGED <<fs_method, fsdf>>

NextMono == SelectFeatures \/ \E t \in FrameThresholds(fsdf) : Reselect(t)

SpecMono == InitMono /\ [][NextMono]_vars

----------------------------------------------------------------------------
(* What the claims speak of, read off the call's inputs *)

\* select_features has been called and has returned or raised
Called == pc = "done" \/ (pc = "failed" /\ err /= "InvalidMethodError")

Returned == pc = "done"

CorrMode == Arg(kwargs, "selection_mode", DefaultCorrMode)
CorrThreshold == ThresholdArg(kwargs, DefaultCorrThreshold)
CorrMethod == Arg(kwargs, "corr_method", DefaultCorrMethod)

\* the absolute correlation of features p[1] and p[2] exceeds threshold t
Exceeds(p, t) == Abs(fsdf.corr[p]) * t.den > t.num * fsdf.one

\* the pairs i < j whose absolute correlation exceeds t
RedundantPairs(t) == {p \in UpperPairs(fsdf.n) : Exceeds(p, t)}

Selected == {selected_features[k] : k \in 1 .. Len(selected_features)}

\* the sum over row i of the absolute correlation matrix of the frame
RowSum(i) == SumOver(Indexes(fsdf.n), [j \in Indexes(fsdf.n) |-> Abs(fsdf.corr[<<i, j>>])])

\* C1: in strict mode, every pair i < j whose absolute correlation exceeds
\* the threshold has an endpoint in the Drop Set, absent from the list returned.
C1_StrictCoverage ==
    (Returned /\ fs_method = "m_corr" /\ CorrMode = "strict") =>
        \A p \in RedundantPairs(CorrThreshold) :
            \E i \in {p[1], p[2]} : i \in index_to_remove /\ i \notin Selected

C1_Witness ==
    /\ Returned /\ fs_method = "m_corr" /\ CorrMode = "strict"
    /\ Cardinality(RedundantPairs(CorrThreshold)) >= 2
    /\ \E p \in RedundantPairs(CorrThreshold) : fsdf.corr[p] < 0

\* C2: in approximate mode, any two indices both in the list returned have
\* an absolute correlation <= the threshold.
C2_ApproximateIndependence ==
    (Returned /\ fs_method = "m_corr" /\ CorrMode = "approximate") =>
        \A p \in UpperPairs(fsdf.n) :
            (p[1] \in Selected /\ p[2] \in Selected) => ~Exceeds(p, CorrThreshold)

C2_Witness ==
    /\ Returned /\ fs_method = "m_corr" /\ CorrMode = "approximate"
    /\ Cardinality(RedundantPairs(CorrThreshold)) >= 2
    /\ Cardinality(Selected) >= 2
    /\ index_to_remove /= {}

\* C7: the list returned by the correlation selector is strictly ascending,
\* within 0 .. n-1, and holds exactly the indices not in the Drop Set.
C7_OutputShape ==
    (Returned /\ fs_method = "m_corr") =>
        /\ \A k \in 1 .. (Len(selected_features) - 1) :
               selected_features[k] < selected_features[k + 1]
        /\ Selected \subseteq Indexes(fsdf.n)
        /\ index_to_remove \subseteq Indexes(fsdf.n)
        /\ Selected \cap index_to_remove = {}
        /\ Selected \cup index_to_remove = Indexes(fsdf.n)

C7_Witness ==
    /\ Returned /\ fs_method = "m_corr"
    /\ Len(selected_features) >= 2 /\ index_to_remove /= {}

PreviousDrop == previous[1].index_to_remove

\* C3 as stated: raising selection_threshold never increases the size of the
\* Drop Set, in strict mode and in approximate mode.
C3_ThresholdMonotone ==
    (Returned /\ previous /= <<>>) =>
        Cardinality(index_to_remove) <= Cardinality(PreviousDrop)

\* C3 as amended: in strict mode, raising selection_threshold never increases
\* the size of the Drop Set (the Drop Set only loses members).
C3_StrictThresholdMonotone ==
    (Returned /\ previous /= <<>> /\ CorrMode = "strict") =>
        /\ index_to_remove \subseteq PreviousDrop
        /\ Cardinality(index_to_remove) <= Cardinality(PreviousDrop)

C3_Witness ==
    /\ Returned /\ previous /= <<>> /\ CorrMode = "strict"
    /\ ~ThresholdLeq(CorrThreshold, previous[1].selection_threshold)
    /\ index_to_remove /= {}
    /\ Cardinality(index_to_remove) < Cardinality(PreviousDrop)

VarMode == Arg(kwargs, "selection_mode", DefaultVarMode)
VarThreshold == ThresholdArg(kwargs, DefaultVarThreshold)

Column(i) == fsdf.columns[i + 1]

IsConstant(col) == \A r \in DOMAIN col : col[r] = col[1]

\* the variance of a column exceeds t:  E[x^2] - E[x]^2 > t, times m^2
VarianceExceeds(col, t) ==
    LET m == Len(col)
        sum == SumOver(1 .. m, col)
        squares == SumOver(1 .. m, [r \in 1 .. m |-> col[r] * col[r]])
    IN (m * squares - sum * sum) * t.den > t.num * m * m

SupportedCorrCall ==
    /\ Called /\ fs_method = "m_corr"
    /\ CorrMode \in {"strict", "approximate"}
    /\ CorrMethod = "pearson"

\* C4: when no pair i < j has an absolute correlation above the threshold,
\* the correlation selector returns the full index range 0 .. n-1, in strict
\* and in approximate mode (stated for corr_method = 'pearson').
C4_RoundTripOnEmptyRedundancy ==
    (SupportedCorrCall /\ RedundantPairs(CorrThreshold) = {}) =>
        Returned /\ selected_features = Range(fsdf.n)

\* the calls made before an error was raised
NothingComputed == trace = <<>>

\* the errors with which an unknown method, mode or correlation method is
\* rejected
ValidationErrors == {"InvalidMethodError", "ValueError"}

\* C5: an unknown method family, selection_mode or corr_method is rejected
\* before the feature matrix is fetched and before anything is computed,
\* and no index list is returned.
C5_FailFast ==
    err \in ValidationErrors => (NothingComputed /\ selected_features = <<>>)

\* C6: with fewer than 2 features the correlation selector does not crash:
\* it finds no pair, drops nothing and returns all feature indices (stated
\* for corr_method = 'pearson').
C6_DegenerateInput ==
    (SupportedCorrCall /\ fsdf.n < 2) =>
        /\ Returned
        /\ correlated_pairs = <<>>
        /\ index_to_remove = {}
        /\ selected_features = Range(fsdf.n)

\* the lowest index among the features of minimum mean correlation
MinMeanFeature ==
    CHOOSE i \in Indexes(fsdf.n) :
        \A j \in Indexes(fsdf.n) : RowSum(i) < RowSum(j) \/ (RowSum(i) = RowSum(j) /\ i <= j)

\* C10: in strict mode, with n >= 1 features, the lowest-index feature of
\* minimum mean correlation is never dropped, so the list returned is not
\* empty; and only endpoints of pairs above the threshold are dropped
\* (stated for corr_method = 'pearson').
C10_StrictKeepsAFeature ==
    (SupportedCorrCall /\ CorrMode = "strict" /\ fsdf.n >= 1) =>
        /\ Returned
        /\ selected_features /= <<>>
        /\ MinMeanFeature \in Selected
        /\ index_to_remove \subseteq
               UNION {{p[1], p[2]} : p \in RedundantPairs(CorrThreshold)}

====
